---- MODULE Spec2Model ----
(***************************************************************************)
(* Model of dashboard/bin/run.py: the IoTaWatt power dashboard.            *)
(*                                                                         *)
(* Python values are represented as follows.                               *)
(*   dict[str, list[(x, y)]]  a sequence of <<key, points>> entries with   *)
(*                            distinct keys, in insertion order (a Python  *)
(*                            dict iterates in insertion order);           *)
(*   Optional[T]              a sequence of length <= 1: <<>> is None;     *)
(*   a real number            an exact reduced fraction <<num, den>>,      *)
(*                            den > 0;  sample values, sizes and the       *)
(*                            threshold are integers;                      *)
(*   a raised exception       the name of its type.                        *)
(* The arithmetic of generate_svg is exact here; the rounding of IEEE      *)
(* doubles is modelled separately (fl, normalise_float) for the statement  *)
(* that is about the exact value of a mapped coordinate.                   *)
(***************************************************************************)
EXTENDS Integers, Sequences, FiniteSets, TLC

\* ---- bounds of the model ------------------------------------------------
\* total number of samples in a snapshot handed to generate_svg
MaxSamples == 3

\* channel names a snapshot may use as keys; "" is a legal dict key
Keys == <<"", "A">>
\* a name that is never a key
AbsentKey == "Z"
\* timestamps and values of samples
XValues == {0, 1}
YValues == {0, 2}
\* thresholds: below, inside and above the values
HighlightPowers == {-1, 1, 3}
\* <<width, height, padding, rotate>>, width and height > 2 * padding
Styles == {<<7, 5, 1, TRUE>>, <<6, 9, 2, FALSE>>}

None == <<>>
Some(v) == <<v>>

\* ---- exact fractions ----------------------------------------------------
Abs(n) == IF n < 0 THEN -n ELSE n

RECURSIVE Gcd(_, _)
Gcd(a, b) == IF b = 0 THEN a ELSE Gcd(b, a % b)

\* the fraction n/d in lowest terms, d # 0
Frac(n, d) ==
    LET g == Gcd(Abs(n), Abs(d))
        s == IF d < 0 THEN -1 ELSE 1
    IN  <<(s * n) \div g, (s * d) \div g>>

FromInt(i) == <<i, 1>>
FAdd(p, q) == Frac(p[1] * q[2] + q[1] * p[2], p[2] * q[2])
FSub(p, q) == Frac(p[1] * q[2] - q[1] * p[2], p[2] * q[2])
FMul(p, q) == Frac(p[1] * q[1], p[2] * q[2])
FDiv(p, q) == Frac(p[1] * q[2], p[2] * q[1])
FLeq(p, q) == p[1] * q[2] <= q[1] * p[2]
FLess(p, q) == p[1] * q[2] < q[1] * p[2]

\* the value a raising division leaves: no fraction has denominator 0
ZeroDivisionError == <<0, 0>>

\* str(v): the shortest text that reads back as v, one text per value
str(q) == Frac(q[1], q[2])

\* n/d rounded to the nearest integer, ties to even (d > 0)
RoundHalfEven(n, d) ==
    LET f == n \div d
        r == n - f * d
    IN  IF 2 * r < d THEN f
        ELSE IF 2 * r > d THEN f + 1
        ELSE IF f % 2 = 0 THEN f ELSE f + 1

\* f"{v:0.2f}": v rounded to hundredths, ties to even; the text is
\* represented by its number of hundredths.  (The coordinates formatted at
\* line 282 are positive when padding > 0, so "-0.00" does not occur.)
Format2f(q) == RoundHalfEven(100 * q[1], q[2])

\* ---- run.py -------------------------------------------------------------
Region(min_x, min_y, max_x, max_y) ==
    [min_x |-> min_x, min_y |-> min_y, max_x |-> max_x, max_y |-> max_y]

\* line 68: new_min + (value - min_val) * (new_max - new_min) / (max_val - min_val)
normalise(value, min_val, max_val, new_min, new_max) ==
    IF max_val - min_val = 0
    THEN ZeroDivisionError
    ELSE FAdd(FromInt(new_min),
              Frac((value - min_val) * (new_max - new_min), max_val - min_val))

\* LOGARITHMIC = False (line 23): scale_y returns its argument
scale_y(value) == value

\* dict operations
RECURSIVE HasKey(_, _)
HasKey(data, k) ==
    IF data = <<>> THEN FALSE
    ELSE Head(data)[1] = k \/ HasKey(Tail(data), k)

RECURSIVE Lookup(_, _)
Lookup(data, k) ==
    IF Head(data)[1] = k THEN Head(data)[2] ELSE Lookup(Tail(data), k)

\* line 103: [point for points in data.values() for point in points]
RECURSIVE all_points(_)
all_points(data) ==
    IF data = <<>> THEN <<>>
    ELSE Head(data)[2] \o all_points(Tail(data))

SeqMin(s) == CHOOSE m \in {s[i] : i \in DOMAIN s} : \A i \in DOMAIN s : m <= s[i]
SeqMax(s) == CHOOSE m \in {s[i] : i \in DOMAIN s} : \A i \in DOMAIN s : m >= s[i]

\* lines 102-109; min() and max() of an empty sequence raise ValueError
get_data_region_raises(data) == all_points(data) = <<>>

get_data_region(data) ==
    LET pts == all_points(data)
        xs == [i \in DOMAIN pts |-> pts[i][1]]
        ys == [i \in DOMAIN pts |-> pts[i][2]]
    IN  Region(SeqMin(xs), SeqMin(ys), SeqMax(xs), SeqMax(ys))

\* lines 112-138
normalise_data(data, data_region, draw_region) ==
    [k \in DOMAIN data |->
        <<data[k][1],
          [j \in DOMAIN data[k][2] |->
              <<normalise(data[k][2][j][1], data_region.min_x, data_region.max_x,
                          draw_region.min_x, draw_region.max_x),
                normalise(data[k][2][j][2], data_region.min_y, data_region.max_y,
                          draw_region.min_y, draw_region.max_y)>>]>>]

\* a division of normalise_data raised
normalise_data_raises(data, data_region) ==
    /\ all_points(data) # <<>>
    /\ \/ data_region.max_x = data_region.min_x
       \/ data_region.max_y = data_region.min_y

\* Python truth value of an Optional[str]: None and "" are false
Truthy(only_source) == only_source # None /\ only_source[1] # ""

\* the existence check written with the truth value of the name, as lines
\* 166 and 188 are: if only_source and only_source not in data
checked_source_truthy(data, only_source) ==
    IF Truthy(only_source) /\ ~HasKey(data, only_source[1]) THEN None ELSE only_source

\* lines 162-164: the filter after the existence check
checked_source(data, only_source) ==
    IF only_source # None /\ ~HasKey(data, only_source[1]) THEN None ELSE only_source

\* line 163: what is printed
printed(data, only_source) ==
    IF only_source # None /\ ~HasKey(data, only_source[1])
    THEN << <<"Ignoring request to filter non-existent field: ", only_source[1]>> >>
    ELSE <<>>

\* lines 166-167: the data the extent is computed from
filter_before(data, only_source, normalise_before_filter) ==
    IF Truthy(only_source) /\ normalise_before_filter = FALSE
    THEN << <<only_source[1], Lookup(data, only_source[1])>> >>
    ELSE data

\* lines 188-189: the data that is drawn
filter_after(data, only_source, normalise_before_filter) ==
    IF Truthy(only_source) /\ normalise_before_filter = TRUE
    THEN << <<only_source[1], Lookup(data, only_source[1])>> >>
    ELSE data

\* lines 171-176
draw_region_of(width, height, padding) ==
    Region(padding, padding, width - padding, height - padding)

\* the grey rectangle with the width of the inverted branch taken from
\* draw_region.max_x alone
highlight_rect_wide(draw_region, height, y_highlight, invert_highlight) ==
    IF invert_highlight
    THEN [x |-> str(FromInt(draw_region.min_x)),
          y |-> str(FSub(FromInt(height), y_highlight)),
          width |-> str(FromInt(draw_region.max_x)),
          height |-> str(FSub(y_highlight, FromInt(draw_region.min_y))),
          fill |-> "grey"]
    ELSE [x |-> str(FromInt(draw_region.min_x)),
          y |-> str(FromInt(draw_region.min_y)),
          width |-> str(FromInt(draw_region.max_x - draw_region.min_x)),
          height |-> str(FSub(FromInt(draw_region.max_y), y_highlight)),
          fill |-> "grey"]

\* lines 200-220: the grey rectangle
highlight_rect(draw_region, height, y_highlight, invert_highlight) ==
    IF invert_highlight
    THEN [x |-> str(FromInt(draw_region.min_x)),
          y |-> str(FSub(FromInt(height), y_highlight)),
          width |-> str(FromInt(draw_region.max_x - draw_region.min_x)),
          height |-> str(FSub(y_highlight, FromInt(draw_region.min_y))),
          fill |-> "grey"]
    ELSE [x |-> str(FromInt(draw_region.min_x)),
          y |-> str(FromInt(draw_region.min_y)),
          width |-> str(FromInt(draw_region.max_x - draw_region.min_x)),
          height |-> str(FSub(FromInt(draw_region.max_y), y_highlight)),
          fill |-> "grey"]

\* lines 281-283: one polyline per remaining source
polylines(data, height, foreground) ==
    [k \in DOMAIN data |->
        [points |-> [j \in DOMAIN data[k][2] |->
                        <<Format2f(data[k][2][j][1]),
                          Format2f(FSub(FromInt(height), data[k][2][j][2]))>>],
         stroke |-> foreground, fill |-> "none", stroke_width |-> "2"]]

\* lines 191-285: the document, once the coordinates are known
svg_document(data, width, height, padding, invert, highlight_power, invert_highlight, only_source, rotate, y_highlight) ==
    LET foreground == IF invert THEN "white" ELSE "black"
        background == IF invert THEN "black" ELSE "white"
        draw_region == draw_region_of(width, height, padding)
    IN  [width |-> IF rotate THEN height ELSE width,
         height |-> IF rotate THEN width ELSE height,
         transform |-> IF rotate THEN <<0, width, -90>> ELSE <<>>,
         background |-> [width |-> width, height |-> height, fill |-> background],
         highlight |-> highlight_rect(draw_region, height, y_highlight, invert_highlight),
         title |-> [fill |-> foreground,
                    translate |-> <<Frac(width - 400, 2), Frac(padding + 20, 2)>>,
                    text |-> IF only_source = None
                             THEN <<"Power consumption">>
                             ELSE <<"Power consumption (", only_source[1], ")">>],
         x_axis |-> [x1 |-> padding, y1 |-> height - padding,
                     x2 |-> width - padding, y2 |-> height - padding,
                     stroke |-> foreground],
         xlabel |-> [fill |-> foreground,
                     translate |-> <<Frac(width - 240, 2), Frac(2 * height - padding + 20, 2)>>,
                     text |-> "Time (Previous 24 hours)"],
         y_axis |-> [x1 |-> padding, y1 |-> padding,
                     x2 |-> padding, y2 |-> height - padding,
                     stroke |-> foreground],
         ylabel |-> [fill |-> foreground,
                     translate |-> <<Frac(padding + 20, 2), Frac(height + 200, 2)>>,
                     text |-> <<"Power (Higher region ", highlight_power, "W)">>],
         polylines |-> polylines(data, height, foreground)]

\* the caller's dict had the filter been applied in place
\* (for key in list(data): if key != only_source: del data[key])
data_after_call_in_place(data, only_source, normalise_before_filter) ==
    IF Truthy(only_source)
    THEN << <<only_source[1], Lookup(data, only_source[1])>> >>
    ELSE data

\* the dict object the caller passed, as the call leaves it: lines 167, 186
\* and 189 bind the local name data to new dicts and never write into it
data_after_call(data, only_source, normalise_before_filter) == data

\* lines 142-285, invert and invert_highlight given.  The outcome records
\* the raised exception type or the returned document, what was printed,
\* the caller's dict after the call and, on return, the local variables.
generate_svg(data, width, height, padding, invert, highlight_power, invert_highlight, only_source, normalise_before_filter, rotate) ==
    LET out == printed(data, only_source)
        source == checked_source(data, only_source)
        data1 == filter_before(data, source, normalise_before_filter)
        arg == data_after_call(data, source, normalise_before_filter)
        Raise(type) == [err |-> type, doc |-> None, stdout |-> out,
                        data |-> arg, locals |-> None]
    IN  IF get_data_region_raises(data1) THEN Raise("ValueError")
        ELSE
        LET data_region == get_data_region(data1)
            draw_region == draw_region_of(width, height, padding)
            y_highlight == normalise(scale_y(highlight_power),
                                     data_region.min_y, data_region.max_y,
                                     draw_region.min_y, draw_region.max_y)
        IN  IF y_highlight = ZeroDivisionError THEN Raise("ZeroDivisionError")
            ELSE IF normalise_data_raises(data1, data_region)
            THEN Raise("ZeroDivisionError")
            ELSE
            LET data2 == normalise_data(data1, data_region, draw_region)
                data3 == filter_after(data2, source, normalise_before_filter)
            IN  [err |-> "none",
                 doc |-> Some(svg_document(data3, width, height, padding, invert,
                                           highlight_power, invert_highlight,
                                           source, rotate, y_highlight)),
                 stdout |-> out,
                 data |-> arg,
                 locals |-> Some([only_source |-> source,
                                  data_region |-> data_region,
                                  draw_region |-> draw_region,
                                  y_highlight |-> y_highlight,
                                  data |-> data3])]

\* ---- state -------------------------------------------------------------
VARIABLES
    call,      \* Optional: the arguments of a direct generate_svg call
    ret,       \* Optional: what that call returned or raised
    fcall,     \* Optional: the arguments of a normalise call on doubles
    fret,      \* Optional: the double it returned
    pc,        \* position of generate_files
    snapshot,  \* the dict data of generate_files
    fetched,   \* the dict as get_iotawatt_sensor_data returned it
    files,     \* the contents of output_dir
    calls,     \* the generate_svg calls generate_files has made, in order
    pos,       \* index of the loop over the sources
    error      \* the exception that left generate_files, or "none"

svg_vars == <<call, ret>>
float_vars == <<fcall, fret>>
files_vars == <<pc, snapshot, fetched, files, calls, pos, error>>
vars == <<call, ret, fcall, fret, pc, snapshot, fetched, files, calls, pos, error>>

\* ---- generate_files -----------------------------------------------------
\* defaults of generate_svg
DefaultWidth == 1448
DefaultHeight == 1072
DefaultPadding == 50
DefaultHighlightPower == 1000

\* number of rows of a payload
MaxRows == 2
\* labels of a payload; its rows and its label list are no longer than this set
LabelValues == {"Time", "A", "B"}
\* the numbers of a payload
PayloadValues == {0, 2000}

\* sequences over S of length exactly n
RECURSIVE SeqsOfLen(_, _)
SeqsOfLen(S, n) ==
    IF n = 0 THEN {<<>>}
    ELSE {<<h>> \o t : h \in S, t \in SeqsOfLen(S, n - 1)}

SeqsUpTo(S, n) == UNION {SeqsOfLen(S, k) : k \in 0..n}

Payloads ==
    [labels : SeqsUpTo(LabelValues, Cardinality(LabelValues)),
     data : SeqsUpTo(SeqsUpTo(PayloadValues, Cardinality(LabelValues)), MaxRows)]

\* d[k] = v on a dict: a new key goes last, an old key keeps its place
RECURSIVE DictPut(_, _, _)
DictPut(d, k, v) ==
    IF d = <<>> THEN << <<k, v>> >>
    ELSE IF Head(d)[1] = k THEN << <<k, v>> >> \o Tail(d)
    ELSE <<Head(d)>> \o DictPut(Tail(d), k, v)

\* {a: b for a, b in pairs}
RECURSIVE DictOf(_)
DictOf(pairs) ==
    IF pairs = <<>> THEN <<>>
    ELSE LET n == Len(pairs)
         IN  DictPut(DictOf(SubSeq(pairs, 1, n - 1)), pairs[n][1], pairs[n][2])

Min(a, b) == IF a < b THEN a ELSE b

\* lines 78-99
convert_sensor_data(data) ==
    LET label == data.labels
        sensor_data == data.data
        Fail(type) == [err |-> type, value |-> <<>>]
    IN  IF label = <<>> THEN Fail("IndexError")
        ELSE IF label[1] # "Time" THEN Fail("Exception: Time not first element")
        ELSE IF sensor_data = <<>> THEN Fail("IndexError")
        ELSE IF \E r \in DOMAIN sensor_data : Len(sensor_data[r]) # Len(sensor_data[1])
        THEN Fail("Exception: Data not all at the same length")
        ELSE
        LET first_len == Len(sensor_data[1])
            plist(c) == [r \in DOMAIN sensor_data |->
                            <<sensor_data[r][1], scale_y(sensor_data[r][c])>>]
            n == Min(Len(label) - 1, IF first_len = 0 THEN 0 ELSE first_len - 1)
            pairs == IF n = 0 THEN <<>>
                     ELSE [k \in 1..n |-> <<label[k + 1], plist(k + 1)>>]
        IN  [err |-> "none", value |-> DictOf(pairs)]

FileNames == {<<"all", "">>} \cup {<<"source_", k>> : k \in LabelValues}
Absent == [exists |-> FALSE, svg |-> None, png |-> FALSE]
\* open(svg_file, "w"): the file exists and is empty
Opened == [exists |-> TRUE, svg |-> None, png |-> FALSE]
\* f.write(document), then convert_svg_to_png
Written(doc) == [exists |-> TRUE, svg |-> Some(doc), png |-> TRUE]

InitFiles ==
    /\ pc = "fetch"
    /\ snapshot = <<>>
    /\ fetched = <<>>
    /\ files = [f \in FileNames |-> Absent]
    /\ calls = <<>>
    /\ pos = 0
    /\ error = "none"

\* line 289: the request fails
FetchFails ==
    /\ pc = "fetch"
    /\ pc' = "raised"
    /\ error' = "URLError"
    /\ UNCHANGED <<snapshot, fetched, files, calls, pos>>

\* line 289, lines 44-63
Fetch ==
    /\ pc = "fetch"
    /\ \E payload \in Payloads :
          LET got == convert_sensor_data(payload)
          IN  IF got.err # "none"
              THEN /\ pc' = "raised"
                   /\ error' = got.err
                   /\ UNCHANGED <<snapshot, fetched>>
              ELSE /\ pc' = "clean"
                   /\ snapshot' = got.value
                   /\ fetched' = got.value
                   /\ UNCHANGED error
    /\ UNCHANGED <<files, calls, pos>>

\* lines 294-295
Clean ==
    /\ pc = "clean"
    /\ files' = [f \in FileNames |-> Absent]
    /\ pc' = "all"
    /\ UNCHANGED <<snapshot, fetched, calls, pos, error>>

\* with open(svg_file, "w") as f: f.write(generate_svg(data, only_source=...));
\* convert_svg_to_png(...).  The file is opened before generate_svg runs;
\* invert and invert_highlight are drawn by random.choice.
Artifact(name, only_source, next_pc, next_i) ==
    \E invert \in BOOLEAN, invert_highlight \in BOOLEAN :
        LET r == generate_svg(snapshot, DefaultWidth, DefaultHeight, DefaultPadding,
                              invert, DefaultHighlightPower, invert_highlight,
                              only_source, TRUE, TRUE)
        IN  /\ calls' = Append(calls, [data |-> snapshot, only_source |-> only_source,
                                       invert |-> invert,
                                       invert_highlight |-> invert_highlight,
                                       ret |-> r])
            /\ snapshot' = r.data
            /\ IF r.err # "none"
               THEN /\ files' = [files EXCEPT ![name] = Opened]
                    /\ pc' = "raised"
                    /\ error' = r.err
                    /\ UNCHANGED pos
               ELSE /\ files' = [files EXCEPT ![name] = Written(r.doc[1])]
                    /\ pc' = next_pc
                    /\ pos' = next_i
                    /\ UNCHANGED error
            /\ UNCHANGED fetched

\* lines 297-302
RenderAll ==
    /\ pc = "all"
    /\ Artifact(<<"all", "">>, None, "sources", 1)

\* lines 304-311, one iteration
RenderSource ==
    /\ pc = "sources"
    /\ pos <= Len(snapshot)
    /\ Artifact(<<"source_", snapshot[pos][1]>>, Some(snapshot[pos][1]), "sources", pos + 1)

\* the loop of line 304 is exhausted
Finish ==
    /\ pc = "sources"
    /\ pos > Len(snapshot)
    /\ pc' = "done"
    /\ UNCHANGED <<snapshot, fetched, files, calls, pos, error>>

Next ==
    /\ \/ FetchFails
       \/ Fetch
       \/ Clean
       \/ RenderAll
       \/ RenderSource
       \/ Finish
    /\ UNCHANGED <<svg_vars, float_vars>>

Init ==
    /\ InitFiles
    /\ call = None /\ ret = None
    /\ fcall = None /\ fret = None

Spec == Init /\ [][Next]_vars

\* ---- calls of generate_svg ----------------------------------------------
Points == XValues \X YValues

\* the orders in which the keys of a dict may have been inserted
KeyOrders == {<<>>} \cup {<<Keys[a]>> : a \in DOMAIN Keys}
             \cup {<<Keys[a], Keys[b]>> : a \in DOMAIN Keys, b \in DOMAIN Keys}

RECURSIVE Distinct(_)
Distinct(s) ==
    s = <<>> \/ ((\A k \in 2..Len(s) : s[k] # s[1]) /\ Distinct(Tail(s)))

\* the snapshots over the keys with at most budget samples
RECURSIVE SnapshotsOver(_, _)
SnapshotsOver(keys, budget) ==
    IF keys = <<>> THEN {<<>>}
    ELSE UNION {
        {<< <<Head(keys), pts>> >> \o rest :
            pts \in SeqsOfLen(Points, n), rest \in SnapshotsOver(Tail(keys), budget - n)}
        : n \in 0..budget}

Snapshots == UNION {SnapshotsOver(ks, MaxSamples) : ks \in {k \in KeyOrders : Distinct(k)}}

Filters == {None, Some(AbsentKey)} \cup {Some(Keys[a]) : a \in DOMAIN Keys}

Calls ==
    [data : Snapshots, style : Styles, invert : BOOLEAN,
     highlight_power : HighlightPowers, invert_highlight : BOOLEAN,
     only_source : Filters, normalise_before_filter : BOOLEAN]

Apply(c) ==
    generate_svg(c.data, c.style[1], c.style[2], c.style[3], c.invert,
                 c.highlight_power, c.invert_highlight, c.only_source,
                 c.normalise_before_filter, c.style[4])

\* the pipeline at rest
FilesIdle ==
    /\ pc = "off"
    /\ snapshot = <<>>
    /\ fetched = <<>>
    /\ files = [f \in FileNames |-> Absent]
    /\ calls = <<>>
    /\ pos = 0
    /\ error = "none"

InitSvg ==
    /\ call \in {Some(c) : c \in Calls}
    /\ ret = None
    /\ fcall = None /\ fret = None
    /\ FilesIdle

CallGenerateSvg ==
    /\ call # None
    /\ ret = None
    /\ ret' = Some(Apply(call[1]))
    /\ UNCHANGED <<call, float_vars, files_vars>>

NextSvg == CallGenerateSvg

SpecSvg == InitSvg /\ [][NextSvg]_vars

\* ---- normalise on doubles -----------------------------------------------
\* bits of the significand (53 for a Python float)
Precision == 5

\* q > 0 as n/d, rounded to Precision significant bits, ties to even
RECURSIVE fl_pos(_, _)
fl_pos(n, d) ==
    IF n < 2^(Precision - 1) * d
    THEN LET r == fl_pos(2 * n, d) IN Frac(r[1], 2 * r[2])
    ELSE IF n >= 2^Precision * d
    THEN LET r == fl_pos(n, 2 * d) IN Frac(2 * r[1], r[2])
    ELSE FromInt(RoundHalfEven(n, d))

\* the double nearest to q (the exponent range is not modelled)
fl(q) ==
    IF q[1] = 0 THEN <<0, 1>>
    ELSE IF q[1] < 0
    THEN LET r == fl_pos(-q[1], q[2]) IN <<-r[1], r[2]>>
    ELSE fl_pos(q[1], q[2])

\* line 68 on float samples: every operation rounds its exact result
normalise_float(value, min_val, max_val, new_min, new_max) ==
    LET num == fl(FMul(fl(FSub(value, min_val)), FromInt(new_max - new_min)))
        den == fl(FSub(max_val, min_val))
    IN  IF den[1] = 0 THEN ZeroDivisionError
        ELSE fl(FAdd(FromInt(new_min), fl(FDiv(num, den))))

\* the doubles the samples are drawn from: the integers that need no rounding
FloatValues == {FromInt(n) : n \in 0..(2^Precision - 1)}

\* <<new_min, new_max>> of both axes of the drawing rectangles
Targets ==
    UNION {{<<st[3], st[1] - st[3]>>, <<st[3], st[2] - st[3]>>} : st \in Styles}

\* a coordinate of a sample and the extent of its axis
FloatCalls ==
    {c \in [value : FloatValues, min_val : FloatValues, max_val : FloatValues,
            target : Targets] :
        /\ FLess(c.min_val, c.max_val)
        /\ FLeq(c.min_val, c.value)
        /\ FLeq(c.value, c.max_val)}

InitFloat ==
    /\ fcall \in {Some(c) : c \in FloatCalls}
    /\ fret = None
    /\ call = None /\ ret = None
    /\ FilesIdle

CallNormalise ==
    /\ fcall # None
    /\ fret = None
    /\ fret' = Some(normalise_float(fcall[1].value, fcall[1].min_val, fcall[1].max_val,
                                    fcall[1].target[1], fcall[1].target[2]))
    /\ UNCHANGED <<fcall, svg_vars, files_vars>>

NextFloat == CallNormalise

SpecFloat == InitFloat /\ [][NextFloat]_vars

\* ---- properties of generate_svg ------------------------------------------
Done == call # None /\ ret # None
Returned == Done /\ ret[1].err = "none"

FilterAbsent(c) == c.only_source # None /\ ~HasKey(c.data, c.only_source[1])
FilterPresent(c) == c.only_source # None /\ HasKey(c.data, c.only_source[1])
NonEmpty(data) == all_points(data) # <<>>
DegenerateExtent(data) ==
    /\ NonEmpty(data)
    /\ LET g == get_data_region(data) IN g.min_x = g.max_x \/ g.min_y = g.max_y
Notice(name) == <<"Ignoring request to filter non-existent field: ", name>>
Unfiltered(c) == Apply([c EXCEPT !.only_source = None])
OnlyChannel(c) == << <<c.only_source[1], Lookup(c.data, c.only_source[1])>> >>
\* the data the extent of the call is taken from
ExtentData(c) ==
    filter_before(c.data, checked_source(c.data, c.only_source),
                  c.normalise_before_filter)

\* C1 as stated: for every non-empty snapshot and every filter name that is
\* not a key, generate_svg does not raise, prints the notice and returns the
\* document of the call without a filter.
C1_AbsentFilterNeverRaises ==
    (Done /\ FilterAbsent(call[1]) /\ NonEmpty(call[1].data)) =>
        /\ ret[1].err = "none"
        /\ ret[1].stdout = <<Notice(call[1].only_source[1])>>
        /\ ret[1].doc = Unfiltered(call[1]).doc

\* C1 amended: a call whose filter name is not a key prints the notice and
\* ends exactly as the call without a filter ends (same document, or the same
\* exception); when the extent of the snapshot is not degenerate it returns,
\* with the filter reset to None, the aggregate title and one polyline per
\* channel.
C1_AbsentFilterIsUnfiltered ==
    (Done /\ FilterAbsent(call[1])) =>
        LET c == call[1]
            r == ret[1]
            u == Unfiltered(c)
        IN  /\ r.stdout = <<Notice(c.only_source[1])>>
            /\ u.stdout = <<>>
            /\ r.err = u.err
            /\ r.doc = u.doc
            /\ (NonEmpty(c.data) /\ ~DegenerateExtent(c.data)) =>
                   /\ r.err = "none"
                   /\ r.locals[1].only_source = None
                   /\ r.doc[1].title.text = <<"Power consumption">>
                   /\ Len(r.doc[1].polylines) = Len(c.data)

\* a returned render of two channels whose filter names no channel
C1_Witness ==
    /\ Returned
    /\ FilterAbsent(call[1])
    /\ call[1].only_source = Some(AbsentKey)
    /\ ret[1].stdout = <<Notice(AbsentKey)>>
    /\ Len(ret[1].doc[1].polylines) = 2

\* C2: when the filter names a key of the snapshot, the returned document has
\* exactly one polyline, drawn from that channel, and the title names the
\* channel, in both normalisation modes.
C2_PresentFilterOnePolyline ==
    (Returned /\ FilterPresent(call[1])) =>
        LET c == call[1]
            r == ret[1]
        IN  /\ Len(r.doc[1].polylines) = 1
            /\ Len(r.locals[1].data) = 1
            /\ r.locals[1].data[1][1] = c.only_source[1]
            /\ r.doc[1].title.text = <<"Power consumption (", c.only_source[1], ")">>

\* C3: with a present filter the extent is that of all channels when
\* normalise_before_filter is true, and then the channel is drawn at the
\* points it has in the unfiltered render; it is that of the filtered channel
\* alone when normalise_before_filter is false, and then the channel's lowest
\* and highest value are drawn on the bottom and top edge of the drawing
\* rectangle; the threshold is mapped with that same extent.
C3_ExtentFollowsMode ==
    (Returned /\ FilterPresent(call[1])) =>
        LET c == call[1]
            r == ret[1]
            l == r.locals[1]
            h == c.style[2]
            p == c.style[3]
            pts == Lookup(c.data, c.only_source[1])
            from == IF c.normalise_before_filter THEN c.data ELSE OnlyChannel(c)
            extent == get_data_region(from)
        IN  /\ NonEmpty(from)
            /\ l.data_region = extent
            /\ l.y_highlight = normalise(c.highlight_power, extent.min_y,
                                         extent.max_y, p, h - p)
            /\ c.normalise_before_filter =>
                  \E i \in DOMAIN c.data :
                      /\ c.data[i][1] = c.only_source[1]
                      /\ \E j \in DOMAIN r.doc[1].polylines :
                            r.doc[1].polylines[j] = Unfiltered(c).doc[1].polylines[i]
            /\ ~c.normalise_before_filter =>
                  \E k \in DOMAIN r.doc[1].polylines :
                      LET drawn == r.doc[1].polylines[k].points
                          ys == [j \in DOMAIN pts |-> pts[j][2]]
                      IN  /\ Len(drawn) = Len(pts)
                          /\ \A j \in DOMAIN pts :
                                /\ pts[j][2] = SeqMin(ys) => drawn[j][2] = 100 * (h - p)
                                /\ pts[j][2] = SeqMax(ys) => drawn[j][2] = 100 * p

\* C4: a snapshot with no channel, no sample, or channels of different
\* lengths makes generate_svg raise and return no document.
InvalidSnapshot(data) ==
    \/ data = <<>>
    \/ all_points(data) = <<>>
    \/ \E i, j \in DOMAIN data : Len(data[i][2]) # Len(data[j][2])

C4_InvalidSnapshotRejected ==
    (Done /\ InvalidSnapshot(call[1].data)) =>
        (ret[1].err # "none" /\ ret[1].doc = None)

\* C5: when the extent is degenerate on an axis the call is rejected with the
\* dedicated degenerate-region error, not by the division by max - min, and
\* returns no document.
C5_DegenerateRejected ==
    (Done /\ DegenerateExtent(ExtentData(call[1]))) =>
        (ret[1].err = "DegenerateRegionError" /\ ret[1].doc = None)

\* the document with its colours blanked
Geometry(doc) ==
    [doc EXCEPT !.background.fill = "", !.title.fill = "", !.xlabel.fill = "",
                !.ylabel.fill = "", !.x_axis.stroke = "", !.y_axis.stroke = "",
                !.polylines = [k \in DOMAIN doc.polylines |->
                                  [doc.polylines[k] EXCEPT !.stroke = ""]]]
\* the document with the placement of the grey rectangle blanked
Unplaced(doc) == [doc EXCEPT !.highlight.y = <<0, 1>>, !.highlight.height = <<0, 1>>]

\* C7: among the four combinations of (invert, invert_highlight) for one
\* snapshot and one style, invert changes colours only (and does change the
\* background), invert_highlight changes only the y and the height of the
\* grey rectangle.
C7_Orthogonal ==
    Returned =>
        \A inv \in BOOLEAN, ih \in BOOLEAN :
            LET c == call[1]
                d == ret[1].doc[1]
                o == Apply([c EXCEPT !.invert = inv, !.invert_highlight = ih])
            IN  /\ o.err = "none"
                /\ (ih = c.invert_highlight) => Geometry(o.doc[1]) = Geometry(d)
                /\ (inv = c.invert) => Unplaced(o.doc[1]) = Unplaced(d)
                /\ Unplaced(Geometry(o.doc[1])) = Unplaced(Geometry(d))
                /\ (inv # c.invert) => o.doc[1].background.fill # d.background.fill
                /\ o.doc[1].highlight.fill = "grey"

\* an inverted render with the inverted highlight that draws some samples
C7_Witness ==
    /\ Returned
    /\ call[1].invert /\ call[1].invert_highlight
    /\ Len(ret[1].doc[1].polylines) = 2
    /\ FLess(<<0, 1>>, ret[1].doc[1].highlight.height)

\* C10: in every returned document the grey rectangle has a non-negative
\* height, lies between the pixel rows padding and height - padding, and has
\* one horizontal edge on the row height - y_highlight.
C10_HighlightInsideDrawRegion ==
    Returned =>
        LET c == call[1]
            rect == ret[1].doc[1].highlight
            h == c.style[2]
            p == c.style[3]
            bottom == FAdd(rect.y, rect.height)
            row == FSub(FromInt(h), ret[1].locals[1].y_highlight)
        IN  /\ FLeq(<<0, 1>>, rect.height)
            /\ FLeq(FromInt(p), rect.y)
            /\ FLeq(bottom, FromInt(h - p))
            /\ (rect.y = row \/ bottom = row)

\* C6: normalise sends the lower end of a non-degenerate extent to new_min,
\* its upper end to new_max, and every coordinate inside the extent to a
\* coordinate inside [new_min, new_max].
C6_MappingKeepsCorners ==
    (fcall # None /\ fret # None) =>
        LET c == fcall[1]
            lo == FromInt(c.target[1])
            hi == FromInt(c.target[2])
        IN  /\ (c.value = c.min_val) => fret[1] = lo
            /\ (c.value = c.max_val) => fret[1] = hi
            /\ FLeq(lo, fret[1])
            /\ FLeq(fret[1], hi)

C9_NoPartialArtifact ==
    (pc = "raised") =>
        \A f \in FileNames : files[f].exists => files[f].svg # None

====
